---------------------------- MODULE Spec2Model ----------------------------
(***************************************************************************)
(* Model of scripts/preprocess_bgs_pdf.py: the chunker (clean, chunk), the *)
(* entity tagger (re.findall over three patterns), the indexer (toks, df,  *)
(* idf) and the two output writes of main().                               *)
(*                                                                         *)
(* A Python str is a sequence of Unicode code points (naturals): 32 is     *)
(* " ", 10 is "\n", 46 is ".", 65..90 are A..Z, 97..122 are a..z.          *)
(* Positions i, end are the 0-based Python indices; text[a:b] is           *)
(* SubSeq(text, a+1, b).                                                   *)
(***************************************************************************)
EXTENDS Integers, Sequences, FiniteSets, TLC

\* ------------------------------------------------------------------------
\* Bounds of the model
\* ------------------------------------------------------------------------
MaxPages == 2      \* a document has 0..MaxPages pages
MaxRuns == 2       \* main() is run at most MaxRuns times on the document

\* ------------------------------------------------------------------------
\* Program constants
\* ------------------------------------------------------------------------
CHUNK_SIZE == 900
OVERLAP == 150
LOOKAHEAD == 120   \* ext = text[end:end+120]
MIN_TOK == 2       \* toks keeps t with len(t) > 2

Min(a, b) == IF a < b THEN a ELSE b

\* ------------------------------------------------------------------------
\* Character classes of Python's re module (str patterns)
\* ------------------------------------------------------------------------
\* \s : [ \t\n\r\f\v] and the other Unicode whitespace below 256
Spaces == {9, 10, 11, 12, 13, 28, 29, 30, 31, 32, 133, 160}
\* \d, [A-Z], [a-z] of the code points the patterns can meet
Digits == 48..57
Uppers == 65..90
Lowers == 97..122
IsSpace(c) == c \in Spaces
\* \S of the code points below 256 (the alphabet of the input catalogue)
NonSpaces == (0..255) \ Spaces
IsDigit(c) == c \in Digits
IsUpper(c) == c \in Uppers
IsLower(c) == c \in Lowers
\* \w of the code points the patterns can meet: [A-Za-z0-9_]
IsWord(c) == IsUpper(c) \/ IsLower(c) \/ IsDigit(c) \/ c = 95
\* [\.!\?]
IsSentenceEnd(c) == c \in {46, 33, 63}

\* a function with domain 1..n as the tuple of its values (the same value)
AsTuple(f) == f \o <<>>

Indices(s) == AsTuple([k \in 1..Len(s) |-> k])

\* Number of consecutive elements of t from position p on (1-based) that
\* lie in the class cls: the greedy match of [cls]* at p.
RunLen(t, p, cls) ==
    IF p < 1 \/ p > Len(t) THEN 0
    ELSE IF \A k \in p..Len(t) : t[k] \in cls THEN Len(t) - p + 1
    ELSE (CHOOSE k \in p..Len(t) :
             /\ t[k] \notin cls
             /\ \A j \in p..(k-1) : t[j] \in cls) - p

\* ------------------------------------------------------------------------
\* clean(s): re.sub(r"\s+"," ",s or "").strip()
\* A value returned by extract_text() is [isNone |-> BOOLEAN, text |-> str].
\* ------------------------------------------------------------------------
Str(s) == [isNone |-> FALSE, text |-> s]
None == [isNone |-> TRUE, text |-> <<>>]

\* v or ""
OrEmpty(v) == IF v.isNone THEN <<>> ELSE v.text

\* re.sub(r"\s+", " ", s): every maximal run of whitespace becomes one " "
ReSubSpaces(s) ==
    LET FirstOfRun(k) == ~IsSpace(s[k]) \/ k = 1 \/ ~IsSpace(s[k-1])
        kept == SelectSeq(Indices(s), FirstOfRun)
    IN  AsTuple([j \in 1..Len(kept) |->
                    IF IsSpace(s[kept[j]]) THEN 32 ELSE s[kept[j]]])

\* str.strip(): drop leading and trailing whitespace
StripNothing(s) == s
Strip(s) ==
    LET ink == {k \in 1..Len(s) : ~IsSpace(s[k])}
    IN  IF ink = {} THEN <<>>
        ELSE LET first == CHOOSE k \in ink : \A j \in 1..(k-1) : IsSpace(s[j])
                 last == CHOOSE k \in ink : \A j \in (k+1)..Len(s) : IsSpace(s[j])
             IN  SubSeq(s, first, last)

cleanNoStrip(v) == ReSubSpaces(OrEmpty(v))
clean(v) == Strip(ReSubSpaces(OrEmpty(v)))

\* ------------------------------------------------------------------------
\* chunk(text, page): one window of the while loop
\* ------------------------------------------------------------------------
\* end = min(i+CHUNK_SIZE, len(text))
RawEnd(t, i) == Min(i + CHUNK_SIZE, Len(t))

\* ext = text[end:end+120]
ExtOneMore(t, end) == SubSeq(t, end + 1, Min(end + LOOKAHEAD + 1, Len(t)))
Ext(t, end) == SubSeq(t, end + 1, Min(end + LOOKAHEAD, Len(t)))

\* m = re.search(r"[\.!\?]\s", ext); m.end() if m else 0.  The match is
\* looked for inside the slice, so both characters lie in ext.
SearchEnd(ext) ==
    LET Hit(k) == IsSentenceEnd(ext[k]) /\ IsSpace(ext[k+1])
    IN  IF \E k \in 1..(Len(ext)-1) : Hit(k)
        THEN (CHOOSE k \in 1..(Len(ext)-1) :
                 Hit(k) /\ \A j \in 1..(k-1) : ~Hit(j)) + 1
        ELSE 0

\* if m: end += m.end()
WindowEnd(t, i) == RawEnd(t, i) + SearchEnd(Ext(t, RawEnd(t, i)))

\* i = end - OVERLAP
NextStartForward(end) == end + OVERLAP
NextStartOneLess(end) == end - OVERLAP - 1
NextStartChunkBack(end) == end - CHUNK_SIZE
NextStart(end) == end - OVERLAP

\* ------------------------------------------------------------------------
\* Entity tagging: re.findall(PAT, t) for the three patterns
\* Each XxxMatch(t, p) is the length of the match of the pattern anchored at
\* the 1-based position p of t, or 0 when it does not match there (no
\* pattern matches the empty string).
\* ------------------------------------------------------------------------
MatchLit(t, p, lit) ==
    IF p + Len(lit) - 1 <= Len(t) /\ \A k \in 1..Len(lit) : t[p+k-1] = lit[k]
    THEN Len(lit) ELSE 0

\* FACTION_PAT: the alternatives in pattern order
FACTIONS == <<
    <<66,108,97,99,107,32,83,117,110,32,67,114,101,119>>,     \* Black Sun Crew
    <<83,112,97,99,101,32,70,111,114,99,101>>,                \* Space Force
    <<79,98,108,105,118,105,111,110,32,70,108,101,101,116>>,  \* Oblivion Fleet
    <<74,101,114,111,109,101,32,65,114,99,104,101,114>>,      \* Jerome Archer
    <<65,108,108,105,97,110,99,101>>,                         \* Alliance
    <<69,109,112,105,114,101>>,                               \* Empire
    <<70,101,100,101,114,97,116,105,111,110>> >>              \* Federation

FactionMatch(t, p) ==
    LET hits == {n \in 1..Len(FACTIONS) : MatchLit(t, p, FACTIONS[n]) > 0}
    IN  IF hits = {} THEN 0
        ELSE Len(FACTIONS[CHOOSE n \in hits : \A m \in hits : n <= m])

\* Pieces of a pattern.  Each takes the 1-based position q where the piece
\* must start, 0 meaning the pattern has already failed, and gives the
\* position after the piece, or 0 when it does not match at q.  Every
\* greedy piece below is followed by a piece that cannot start with a
\* character of its class cls, so backtracking never finds another match.
One(t, q, cls) ==
    IF q > 0 /\ q <= Len(t) /\ t[q] \in cls THEN q + 1 ELSE 0
Lit(t, q, lit) ==
    IF q > 0 /\ MatchLit(t, q, lit) > 0 THEN q + Len(lit) ELSE 0
\* a greedy run of n characters at q that the pattern accepts when ok
Piece(q, ok, n) == IF q > 0 /\ ok THEN q + n ELSE 0
\* cls{lo,hi} where the next piece excludes cls: the run must fit
Between(t, q, cls, lo, hi) ==
    Piece(q, RunLen(t, q, cls) >= lo /\ RunLen(t, q, cls) <= hi,
          RunLen(t, q, cls))
\* cls{lo,hi} at the end of the pattern: as many as hi are taken
UpTo(t, q, cls, lo, hi) ==
    Piece(q, RunLen(t, q, cls) >= lo, Min(RunLen(t, q, cls), hi))
\* cls{lo,} at the end of the pattern, or before a piece excluding cls
AtLeast(t, q, cls, lo) ==
    Piece(q, RunLen(t, q, cls) >= lo, RunLen(t, q, cls))
\* cls? before a piece that excludes cls
Maybe(t, q, cls) ==
    IF q > 0 /\ q <= Len(t) /\ t[q] \in cls THEN q + 1 ELSE q

\* a | b for the end positions of two alternatives: the first that matches
FirstOf(a, b) == IF a > 0 THEN a ELSE b
\* the length of the match that starts at p and ends before q (0: no match)
MatchedLen(p, q) == IF q > 0 THEN q - p ELSE 0

\* SYSTEM_PAT = LTT[- ]?\d{4,5} | [A-Z][a-z]+ Sector [A-Z0-9\- ]+
\*            | [A-Z][A-Za-z0-9\- ]{2,}
\* [- ], [A-Z0-9\- ], [A-Za-z0-9\- ]
Seps == {45, 32}
SectorTails == Uppers \cup Digits \cup Seps
SystemChars == Uppers \cup Lowers \cup Digits \cup Seps

SystemLtt(t, p) ==
    UpTo(t, Maybe(t, Lit(t, p, <<76,84,84>>), Seps), Digits, 4, 5)
SystemSector(t, p) ==
    AtLeast(t, Lit(t, AtLeast(t, One(t, p, Uppers), Lowers, 1),
                   <<32,83,101,99,116,111,114,32>>),
            SectorTails, 1)
SystemName(t, p) == AtLeast(t, One(t, p, Uppers), SystemChars, 2)

SystemMatch(t, p) ==
    MatchedLen(p, FirstOf(SystemLtt(t, p),
                          FirstOf(SystemSector(t, p), SystemName(t, p))))

\* DATE_PAT = \b(20\d{2}-\d{2}-\d{2}|[A-Z][a-z]{2,9}\s+\d{1,2},\s+20\d{2})\b
\* 20\d{2}
Year(t, q) == One(t, One(t, One(t, One(t, q, {50}), {48}), Digits), Digits)
\* -\d{2}
HyphenTwoDigits(t, q) == One(t, One(t, One(t, q, {45}), Digits), Digits)
DateIso(t, p) == HyphenTwoDigits(t, HyphenTwoDigits(t, Year(t, p)))
DateLong(t, p) ==
    Year(t,
      AtLeast(t,
        One(t,
          Between(t,
            AtLeast(t,
              Between(t, One(t, p, Uppers), Lowers, 2, 9),
              Spaces, 1),
            Digits, 1, 2),
          {44}),
        Spaces, 1))

\* \b(...)\b around a group that starts at p, with a word character, and
\* ends before q, with a word character
Bounded(t, p, q) ==
    IF q > 0 /\ (p = 1 \/ ~IsWord(t[p-1])) /\ (q > Len(t) \/ ~IsWord(t[q]))
    THEN q ELSE 0

\* the two alternatives start with different characters, so a failure of
\* the closing \b after the first is final
DateMatch(t, p) ==
    MatchedLen(p, Bounded(t, p, FirstOf(DateIso(t, p), DateLong(t, p))))

MatchLen(pat, t, p) ==
    CASE pat = "SYSTEM_PAT" -> SystemMatch(t, p)
      [] pat = "FACTION_PAT" -> FactionMatch(t, p)
      [] pat = "DATE_PAT" -> DateMatch(t, p)

\* re.findall(pat, t): lens[q] is the length of the match anchored at q.
\* The scan from pos takes the leftmost match and resumes after it
\* (matches do not overlap).
RECURSIVE FindAllFrom(_, _, _)
FindAllFrom(t, lens, pos) ==
    IF \A q \in pos..Len(t) : lens[q] = 0 THEN <<>>
    ELSE LET q == CHOOSE q \in pos..Len(t) :
                     lens[q] > 0 /\ \A r \in pos..(q-1) : lens[r] = 0
         IN  <<SubSeq(t, q, q + lens[q] - 1)>>
                 \o FindAllFrom(t, lens, q + lens[q])

findall(pat, t) ==
    FindAllFrom(t, AsTuple([q \in 1..Len(t) |-> MatchLen(pat, t, q)]), 1)

Range(f) == {f[x] : x \in DOMAIN f}

\* ------------------------------------------------------------------------
\* Iteration order of a set of str.  CPython orders a set by the hashes of
\* its elements, and str hashes are salted per process (PYTHONHASHSEED is
\* random unless set), so the order is fixed within one run of the program
\* and may differ between runs.  hashOrder stands for the salt of the run;
\* two of the orders a salt can produce are modelled.
\* ------------------------------------------------------------------------
HashOrders == {"lex", "revlex"}

LexLess(a, b) ==
    \E k \in 1..(Min(Len(a), Len(b)) + 1) :
        /\ \A j \in 1..(k-1) : a[j] = b[j]
        /\ \/ k > Len(a) /\ k <= Len(b)
           \/ k <= Len(a) /\ k <= Len(b) /\ a[k] < b[k]

Before(order, a, b) == IF order = "lex" THEN LexLess(a, b) ELSE LexLess(b, a)

\* list(S) / for w in S, for a set S of str
SetIter(order, S) ==
    [k \in 1..Cardinality(S) |->
        CHOOSE x \in S : Cardinality({y \in S : Before(order, y, x)}) = k - 1]

\* ------------------------------------------------------------------------
\* toks(s)
\* ------------------------------------------------------------------------
Lower(c) == IF IsUpper(c) THEN c + 32 ELSE c

\* re.sub(r"[^a-z0-9\s\-]"," ",(s or "").lower())
TokNormal(s) ==
    AsTuple([k \in 1..Len(s) |->
        LET c == Lower(s[k])
        IN  IF IsLower(c) \/ IsDigit(c) \/ IsSpace(c) \/ c = 45 THEN c ELSE 32])

\* s.split(): the maximal runs of non-whitespace, left to right
Split(s) ==
    LET IsStart(k) == ~IsSpace(s[k]) /\ (k = 1 \/ IsSpace(s[k-1]))
        starts == SelectSeq(Indices(s), IsStart)
    IN  AsTuple([j \in 1..Len(starts) |->
            SubSeq(s, starts[j], starts[j] + RunLen(s, starts[j], NonSpaces) - 1)])

toks(s) ==
    LET Long(t) == Len(t) > MIN_TOK
    IN  SelectSeq(Split(TokNormal(s)), Long)

\* ------------------------------------------------------------------------
\* The source document: what reader.pages[p].extract_text() can return.
\* A document is a sequence of page kinds; Pages lists the page contents
\* the model draws from.
\* ------------------------------------------------------------------------
LOREM == <<108,111,114,101,109>>
IPSUM == <<105,112,115,117,109>>

\* n characters of "lorem lorem lorem ..." (a space at every 6th position),
\* the words after the first cut characters being "ipsum"
Filler(n, cut) ==
    [j \in 1..n |-> IF j % 6 = 0 THEN 32
                    ELSE IF j <= cut THEN LOREM[j % 6] ELSE IPSUM[j % 6]]

\* s with the characters from the 0-based position at replaced by cs
Put(s, at, cs) ==
    [j \in 1..Len(s) |-> IF j > at /\ j <= at + Len(cs) THEN cs[j - at] ELSE s[j]]

\* s with leading, trailing and doubled whitespace, as a PDF extraction
\* gives it (s[6] is a space)
Messy(s) == <<9>> \o SubSeq(s, 1, 5) \o <<10, 32>> \o SubSeq(s, 7, Len(s)) \o <<32, 13>>

\* "  Sector Alpha was claimed by the Alliance on\n2024-03-01.  Expansion of
\* the Empire continued. "
ScenarioText ==
    <<32,32,83,101,99,116,111,114,32,65,108,112,104,97,32,119,97,115,32,99,
      108,97,105,109,101,100,32,98,121,32,116,104,101,32,65,108,108,105,97,
      110,99,101,32,111,110,10,50,48,50,52,45,48,51,45,48,49,46,32,32,69,120,
      112,97,110,115,105,111,110,32,111,102,32,116,104,101,32,69,109,112,105,
      114,101,32,99,111,110,116,105,110,117,101,100,46,32>>

\* 1800 characters: "Empire" inside the first overlap, ". " ending at the
\* last position of the first lookahead, "! " inside the second lookahead
LongText ==
    Put(Put(Put(Filler(1800, 1000), 882, <<69,109,112,105,114,101>>),
            1018, <<46>>), 1780, <<33>>)

Pages == <<
    None,                                         \* extract_text() gives None
    Str(<<32, 10, 9>>),                           \* only whitespace
    Str(ScenarioText),                            \* shorter than CHUNK_SIZE
    Str(Messy(Filler(1000, 1000))),               \* 1000 characters once cleaned
    Str(LongText),                                \* three windows
    Str(Put(Filler(1100, 1100), 1019, <<46, 32>>)), \* ". " straddling the lookahead
    Str(Put(Filler(900, 900), 899, <<46>>)) >>    \* exactly CHUNK_SIZE characters

PageKinds == DOMAIN Pages

\* reader.pages[p].extract_text() for the 0-based page index q of document d
extract_text(d, q) == Pages[d[q + 1]]

Documents == UNION {[1..n -> PageKinds] : n \in 0..MaxPages}

\* ------------------------------------------------------------------------
\* Files data/bgs_chunks.json and data/bgs_index.json
\* ------------------------------------------------------------------------
NoChunks == [state |-> "absent", data |-> <<>>]
NoIndex == [state |-> "absent", data |-> [idf |-> <<>>, N |-> 0]]
\* open(path, "w") truncated the file and json.dump did not complete
PartialChunks == [state |-> "partial", data |-> <<>>]
PartialIndex == [state |-> "partial", data |-> [idf |-> <<>>, N |-> 0]]
\* json.dump(obj, f) completed: arrays and object keys are written in the
\* order of the list / dict, so the file is determined by the ordered value
Dumped(obj) == [state |-> "written", data |-> obj]

\* ------------------------------------------------------------------------
\* State
\* ------------------------------------------------------------------------
VARIABLES
    doc,         \* the pages of data/bgsguide.pdf (page kinds)
    run,         \* number of the current run of main()
    pc,          \* position of the run in main()
    failedAt,    \* the statement that raised, "" if none
    hashOrder,   \* set iteration order of this process (hash salt)
    p,           \* main: page index of the for loop
    text, i, out,\* chunk: locals
    spans,       \* chunk: the values (i, end) at each out.append
    ci,          \* main: index of c in chunk(raw, p+1)
    chunks,      \* main: chunks
    k,           \* main: index of c in chunks (index loop)
    df, docs,    \* main: df (dict, as its items in key order), docs
    idf, N,      \* main: idf (dict, as its items in key order), N
    chunkStore,  \* data/bgs_chunks.json
    indexStore   \* data/bgs_index.json

vars == <<doc, run, pc, failedAt, hashOrder, p, text, i, out, spans, ci,
          chunks, k, df, docs, idf, N, chunkStore, indexStore>>

files == <<chunkStore, indexStore>>
chunkLocals == <<text, i, out, spans>>
indexLocals == <<k, df, docs, idf, N>>

Init ==
    /\ doc \in Documents
    /\ run = 1
    /\ pc = "start"
    /\ failedAt = ""
    /\ hashOrder = "lex"
    /\ p = 0
    /\ text = <<>> /\ i = 0 /\ out = <<>> /\ spans = <<>>
    /\ ci = 0
    /\ chunks = <<>>
    /\ k = 0
    /\ df = <<>> /\ docs = <<>>
    /\ idf = <<>> /\ N = 0
    /\ chunkStore = NoChunks
    /\ indexStore = NoIndex

\* ------------------------------------------------------------------------
\* main(): lines 32-34
\* ------------------------------------------------------------------------
Start ==
    /\ pc = "start"
    /\ hashOrder' \in HashOrders
    /\ chunks' = <<>>
    /\ p' = 0
    /\ pc' = "pages"
    /\ UNCHANGED <<doc, run, failedAt, chunkLocals, ci, indexLocals, files>>

\* os.makedirs or PdfReader(PDF_PATH) raises
FailRead ==
    /\ pc = "start"
    /\ pc' = "failed"
    /\ failedAt' = "PdfReader"
    /\ UNCHANGED <<doc, run, hashOrder, p, chunkLocals, ci, chunks,
                   indexLocals, files>>

\* ------------------------------------------------------------------------
\* for p in range(len(reader.pages)): raw = ... or ""; chunk(raw, p+1)
\* up to the while loop (lines 35-37, 19-20)
\* ------------------------------------------------------------------------
NextPage ==
    /\ pc = "pages"
    /\ p < Len(doc)
    /\ LET raw == Str(OrEmpty(extract_text(doc, p)))
       IN  text' = clean(raw)
    /\ i' = 0
    /\ out' = <<>>
    /\ spans' = <<>>
    /\ pc' = "window"
    /\ UNCHANGED <<doc, run, failedAt, hashOrder, p, ci, chunks,
                   indexLocals, files>>

\* extract_text() raises on a malformed page
FailExtract ==
    /\ pc = "pages"
    /\ p < Len(doc)
    /\ pc' = "failed"
    /\ failedAt' = "extract_text"
    /\ UNCHANGED <<doc, run, hashOrder, p, chunkLocals, ci, chunks,
                   indexLocals, files>>

\* the for loop over the pages ends; df, docs = {}, [] (line 52)
PagesDone ==
    /\ pc = "pages"
    /\ p = Len(doc)
    /\ df' = <<>>
    /\ docs' = <<>>
    /\ k' = 0
    /\ pc' = "index"
    /\ UNCHANGED <<doc, run, failedAt, hashOrder, p, chunkLocals, ci, chunks,
                   idf, N, files>>

\* ------------------------------------------------------------------------
\* chunk(): one evaluation of the while condition and, when it holds, one
\* iteration of the loop (lines 21-29)
\* ------------------------------------------------------------------------
Window ==
    /\ pc = "window"
    /\ IF i < Len(text)
       THEN LET end == WindowEnd(text, i)
            IN  /\ out' = Append(out, [page |-> p + 1,
                                       text |-> SubSeq(text, i + 1, end)])
                /\ spans' = Append(spans, [i |-> i, end |-> end])
                /\ IF end >= Len(text)
                   THEN /\ i' = i
                        /\ ci' = 0
                        /\ pc' = "tag"
                   ELSE /\ i' = NextStart(end)
                        /\ UNCHANGED <<ci, pc>>
       ELSE /\ ci' = 0
            /\ pc' = "tag"
            /\ UNCHANGED <<i, out, spans>>
    /\ UNCHANGED <<doc, run, failedAt, hashOrder, p, text, chunks,
                   indexLocals, files>>

\* ------------------------------------------------------------------------
\* main(): body of "for c in chunk(raw, p+1)" (lines 37-49)
\* ------------------------------------------------------------------------
\* list(set(re.findall(PAT, t)))
ListOfSet(order, pat, t) == SetIter(order, Range(findall(pat, t)))

\* "id": len(chunks)
NextIdOneBased(chs) == Len(chs) + 1
NextId(chs) == Len(chs)

Tag ==
    /\ pc = "tag"
    /\ ci < Len(out)
    /\ LET c == out[ci + 1]
           t == c.text
       IN  chunks' = Append(chunks,
                [id |-> NextId(chunks),
                 page |-> c.page,
                 systems |-> ListOfSet(hashOrder, "SYSTEM_PAT", t),
                 factions |-> ListOfSet(hashOrder, "FACTION_PAT", t),
                 dates |-> ListOfSet(hashOrder, "DATE_PAT", t),
                 text |-> t])
    /\ ci' = ci + 1
    /\ UNCHANGED <<doc, run, pc, failedAt, hashOrder, p, chunkLocals,
                   indexLocals, files>>

\* the inner for loop ends: next p
TagDone ==
    /\ pc = "tag"
    /\ ci = Len(out)
    /\ p' = p + 1
    /\ pc' = "pages"
    /\ UNCHANGED <<doc, run, failedAt, hashOrder, chunkLocals, ci, chunks,
                   indexLocals, files>>

\* ------------------------------------------------------------------------
\* main(): the IDF index (lines 52-58)
\* ------------------------------------------------------------------------
\* for w in ts: df[w] = df.get(w,0)+1, ws being ts in iteration order.
\* A dict keeps its keys in insertion order.
RECURSIVE DfAddNoCount(_, _)
DfAddNoCount(d, ws) ==
    IF ws = <<>> THEN d
    ELSE LET w == Head(ws)
             hit == {j \in 1..Len(d) : d[j].w = w}
             d1 == IF hit = {} THEN Append(d, [w |-> w, n |-> 0 + 1]) ELSE d
         IN  DfAddNoCount(d1, Tail(ws))

RECURSIVE DfAdd(_, _)
DfAdd(d, ws) ==
    IF ws = <<>> THEN d
    ELSE LET w == Head(ws)
             hit == {j \in 1..Len(d) : d[j].w = w}
             d1 == IF hit = {} THEN Append(d, [w |-> w, n |-> 0 + 1])
                   ELSE [j \in 1..Len(d) |->
                            IF j \in hit THEN [w |-> w, n |-> d[j].n + 1]
                            ELSE d[j]]
         IN  DfAdd(d1, Tail(ws))

\* math.log((N+1)/(df[w]+1))+1.0, kept exactly as the argument of the
\* logarithm: the value is ln(num/den) + 1.0
Idf(n, dfw) == [num |-> n + 1, den |-> dfw + 1]

IndexChunk ==
    /\ pc = "index"
    /\ k < Len(chunks)
    /\ LET ts == Range(toks(chunks[k + 1].text))
       IN  /\ docs' = Append(docs, ts)
           /\ df' = DfAdd(df, SetIter(hashOrder, ts))
    /\ k' = k + 1
    /\ UNCHANGED <<doc, run, pc, failedAt, hashOrder, p, chunkLocals, ci,
                   chunks, idf, N, files>>

ComputeIdfIndexWriteFirst ==
    /\ pc = "index"
    /\ k = Len(chunks)
    /\ N' = Len(chunks)
    /\ idf' = [j \in 1..Len(df) |->
                  [w |-> df[j].w, v |-> Idf(Len(chunks), df[j].n)]]
    /\ pc' = "write_index"
    /\ UNCHANGED <<doc, run, failedAt, hashOrder, p, chunkLocals, ci, chunks,
                   k, df, docs, files>>

ComputeIdf ==
    /\ pc = "index"
    /\ k = Len(chunks)
    /\ N' = Len(chunks)
    /\ idf' = [j \in 1..Len(df) |->
                  [w |-> df[j].w, v |-> Idf(Len(chunks), df[j].n)]]
    /\ pc' = "write_chunks"
    /\ UNCHANGED <<doc, run, failedAt, hashOrder, p, chunkLocals, ci, chunks,
                   k, df, docs, files>>

\* ------------------------------------------------------------------------
\* main(): the two writes (lines 60-62)
\* ------------------------------------------------------------------------
WriteChunks ==
    /\ pc = "write_chunks"
    /\ chunkStore' = Dumped(chunks)
    /\ pc' = "write_index"
    /\ UNCHANGED <<doc, run, failedAt, hashOrder, p, chunkLocals, ci, chunks,
                   indexLocals, indexStore>>

\* open("data/bgs_chunks.json","w") raises: the file is not touched
FailOpenChunks ==
    /\ pc = "write_chunks"
    /\ pc' = "failed"
    /\ failedAt' = "open_chunks"
    /\ UNCHANGED <<doc, run, hashOrder, p, chunkLocals, ci, chunks,
                   indexLocals, files>>

\* json.dump raises after open() truncated the file
FailDumpChunks ==
    /\ pc = "write_chunks"
    /\ chunkStore' = PartialChunks
    /\ pc' = "failed"
    /\ failedAt' = "dump_chunks"
    /\ UNCHANGED <<doc, run, hashOrder, p, chunkLocals, ci, chunks,
                   indexLocals, indexStore>>

\* line 61, then the print of line 62
WriteIndex ==
    /\ pc = "write_index"
    /\ indexStore' = Dumped([idf |-> idf, N |-> N])
    /\ pc' = "done"
    /\ UNCHANGED <<doc, run, failedAt, hashOrder, p, chunkLocals, ci, chunks,
                   indexLocals, chunkStore>>

FailOpenIndex ==
    /\ pc = "write_index"
    /\ pc' = "failed"
    /\ failedAt' = "open_index"
    /\ UNCHANGED <<doc, run, hashOrder, p, chunkLocals, ci, chunks,
                   indexLocals, files>>

FailDumpIndex ==
    /\ pc = "write_index"
    /\ indexStore' = PartialIndex
    /\ pc' = "failed"
    /\ failedAt' = "dump_index"
    /\ UNCHANGED <<doc, run, hashOrder, p, chunkLocals, ci, chunks,
                   indexLocals, chunkStore>>

\* ------------------------------------------------------------------------
\* The script is run again on the unchanged document: a new process, the
\* two files are what the earlier runs left
\* ------------------------------------------------------------------------
NewRun ==
    /\ pc \in {"done", "failed"}
    /\ run < MaxRuns
    /\ run' = run + 1
    /\ pc' = "start"
    /\ failedAt' = ""
    /\ hashOrder' = "lex"
    /\ p' = 0
    /\ text' = <<>> /\ i' = 0 /\ out' = <<>> /\ spans' = <<>>
    /\ ci' = 0
    /\ chunks' = <<>>
    /\ k' = 0
    /\ df' = <<>> /\ docs' = <<>>
    /\ idf' = <<>> /\ N' = 0
    /\ UNCHANGED <<doc, files>>

Next ==
    \/ Start
    \/ FailRead
    \/ NextPage
    \/ FailExtract
    \/ PagesDone
    \/ Window
    \/ Tag
    \/ TagDone
    \/ IndexChunk
    \/ ComputeIdf
    \/ WriteChunks
    \/ FailOpenChunks
    \/ FailDumpChunks
    \/ WriteIndex
    \/ FailOpenIndex
    \/ FailDumpIndex
    \/ NewRun

Spec == Init /\ [][Next]_vars

\* chunk() is a sequential loop: once entered, its next iteration runs
FairSpec == Spec /\ WF_vars(Window)

\* ========================================================================
\* Properties
\* ========================================================================
\* chunk(raw, p+1) has returned and its locals still hold the page's values
Returned == pc = "tag"

\* the raw text handed to chunk() for the page in progress
RawOfPage(q) == OrEmpty(extract_text(doc, q - 1))

\* main() is past line 58: df, idf and N are computed
Indexed ==
    \/ pc \in {"write_chunks", "write_index", "done"}
    \/ pc = "failed" /\ failedAt \in {"open_chunks", "dump_chunks",
                                      "open_index", "dump_index"}

\* the windows joined, each window after the first without its leading
\* OVERLAP characters
RECURSIVE Rejoin(_, _)
Rejoin(ws, n) ==
    IF n > Len(ws) THEN <<>>
    ELSE (IF n = 1 THEN ws[n].text
          ELSE SubSeq(ws[n].text, OVERLAP + 1, Len(ws[n].text)))
         \o Rejoin(ws, n + 1)

\* n is a whitespace-normalized form of raw: single spaces only, none at
\* either end, and the same words in the same order
NormalizedOf(n, raw) ==
    /\ \A j \in 1..Len(n) : IsSpace(n[j]) =>
           /\ n[j] = 32
           /\ j > 1 /\ j < Len(n)
           /\ ~IsSpace(n[j+1])
    /\ Split(n) = Split(raw)

\* ------------------------------------------------------------------------
\* C1 (as claimed): a run of main() on the unchanged document that
\* rewrites a completely written chunk store or index store writes the same
\* content again, the order of the systems/factions/dates lists and of the
\* idf keys included.
\* ------------------------------------------------------------------------
C1_RunsWriteIdenticalFiles ==
    [][/\ (pc = "write_chunks" /\ pc' = "write_index"
              /\ chunkStore.state = "written") => chunkStore' = chunkStore
       /\ (pc = "write_index" /\ pc' = "done"
              /\ indexStore.state = "written") => indexStore' = indexStore]_vars

\* ------------------------------------------------------------------------
\* C2: for a non-empty normalized text the windows of chunk() cover it
\* without gaps: the first starts at 0, each later one starts at or before
\* the end of the one before, the last ends at len(text), and the windows
\* joined without the leading OVERLAP characters of each non-first window
\* give the normalized text back.
\* ------------------------------------------------------------------------
C2_WindowsCoverText ==
    /\ (pc \in {"window", "tag"} /\ spans # <<>>) =>
           /\ spans[1].i = 0
           /\ \A n \in 2..Len(spans) : spans[n].i <= spans[n-1].end
           /\ \A n \in 1..Len(spans) :
                  out[n].text = SubSeq(text, spans[n].i + 1, spans[n].end)
    /\ (Returned /\ text # <<>>) =>
           /\ spans # <<>>
           /\ spans[Len(spans)].end = Len(text)
           /\ Rejoin(out, 1) = text

C2_Witness ==
    /\ Returned
    /\ Len(out) = 3
    /\ Len(out[1].text) > CHUNK_SIZE
    /\ Rejoin(out, 1) = text

\* ------------------------------------------------------------------------
\* C3 (as claimed): for every input text shorter than CHUNK_SIZE, chunk()
\* gives exactly one chunk, whose text is the normalized input.
\* ------------------------------------------------------------------------
C3_ShortTextOneChunk ==
    (Returned /\ Len(RawOfPage(p + 1)) < CHUNK_SIZE) =>
        /\ Len(out) = 1
        /\ NormalizedOf(out[1].text, RawOfPage(p + 1))

\* C3 (amended): for every input text shorter than CHUNK_SIZE that is not
\* empty once normalized (it has a character that is not whitespace),
\* chunk() gives exactly one chunk, whose text is the normalized input.
C3_ShortNonEmptyTextOneChunk ==
    (/\ Returned
     /\ Len(RawOfPage(p + 1)) < CHUNK_SIZE
     /\ \E j \in 1..Len(RawOfPage(p + 1)) : ~IsSpace(RawOfPage(p + 1)[j])) =>
        /\ Len(out) = 1
        /\ out[1].page = p + 1
        /\ NormalizedOf(out[1].text, RawOfPage(p + 1))

C3_Witness ==
    /\ Returned
    /\ RawOfPage(p + 1) = ScenarioText
    /\ Len(out) = 1
    /\ Len(out[1].text) < Len(ScenarioText)

\* ------------------------------------------------------------------------
\* C4: the chunk at list position n (0-based) has id n, so the ids are
\* 0..N-1 without repetition, in the order the chunks are produced by
\* chunk(), and the page is non-decreasing in the id.
\* ------------------------------------------------------------------------
C4_IdsArePositions ==
    /\ \A n \in 1..Len(chunks) :
           /\ chunks[n].id = n - 1
           /\ chunks[n].page \in 1..Len(doc)
           /\ n > 1 => chunks[n-1].page <= chunks[n].page
    /\ pc = "tag" =>
           \A j \in 1..ci :
               /\ chunks[Len(chunks) - ci + j].text = out[j].text
               /\ chunks[Len(chunks) - ci + j].page = p + 1
    /\ Indexed =>
           /\ N = Len(chunks)
           /\ \A n \in 1..Len(chunks) : chunks[n].id >= 0 /\ chunks[n].id < N

C4_Witness ==
    /\ pc = "done"
    /\ Len(chunks) >= 4
    /\ chunks[1].page = 1
    /\ chunks[Len(chunks)].page = 2
    /\ chunks[Len(chunks)].id = N - 1

\* ------------------------------------------------------------------------
\* C5: after indexing the keys of the index are the tokens of the chunks,
\* df[w] is the number of chunks whose text has the token w (a chunk counts
\* once), so 1 <= df[w] <= N, and idf[w] = ln((N+1)/(df[w]+1)) + 1.0, which
\* is at least 1.0 (1.0 exactly when df[w] = N) and strictly smaller for a
\* larger df[w].  ln is strictly increasing, so ln(a/b) >= 0 is a >= b and
\* ln(a/b) > ln(c/d) is a*d > c*b.
\* ------------------------------------------------------------------------
C5_IdfFromDocumentFrequency ==
    /\ pc = "write_chunks" =>
           LET tokens == AsTuple([n \in 1..Len(chunks) |->
                                     toks(chunks[n].text)])
           IN  /\ \A n \in 1..Len(chunks) :
                      \A m \in 1..Len(tokens[n]) :
                          \E j \in 1..Len(df) : df[j].w = tokens[n][m]
               /\ \A j \in 1..Len(df) :
                      df[j].n = Cardinality({n \in 1..Len(chunks) :
                                    \E m \in 1..Len(tokens[n]) :
                                        tokens[n][m] = df[j].w})
    /\ Indexed =>
           /\ Len(idf) = Len(df)
           /\ \A j \in 1..Len(df) :
                  /\ df[j].n >= 1 /\ df[j].n <= N
                  /\ \A m \in 1..Len(df) : df[m].w = df[j].w => m = j
                  /\ idf[j].w = df[j].w
                  /\ idf[j].v.num = N + 1
                  /\ idf[j].v.den = df[j].n + 1
                  /\ idf[j].v.num >= idf[j].v.den
                  /\ (idf[j].v.num = idf[j].v.den) <=> (df[j].n = N)
                  /\ \A m \in 1..Len(df) :
                         df[j].n < df[m].n =>
                             idf[j].v.num * idf[m].v.den
                                 > idf[m].v.num * idf[j].v.den

\* a token of every chunk and a token of only some chunks
C5_Witness ==
    /\ pc = "write_chunks"
    /\ N >= 3
    /\ \E j, m \in 1..Len(df) :
           /\ df[j].n = N /\ idf[j].v.num = idf[j].v.den
           /\ df[m].n < N /\ df[m].n > 1

\* ------------------------------------------------------------------------
\* C6: a page whose extracted text is None, "" or only whitespace gives no
\* chunk and no document-frequency entry, takes no chunk id and raises
\* nothing, and the pages after it are processed under their 1-based
\* numbers.
\* ------------------------------------------------------------------------
EmptyPage(q) == \A j \in 1..Len(RawOfPage(q)) : IsSpace(RawOfPage(q)[j])

\* the first word of s (s has a character that is not whitespace)
FirstWord(s) ==
    LET a == CHOOSE j \in 1..Len(s) :
                 ~IsSpace(s[j]) /\ \A m \in 1..(j-1) : IsSpace(s[m])
    IN  SubSeq(s, a, a + RunLen(s, a, NonSpaces) - 1)

C6_EmptyPageTolerated ==
    /\ \A q \in 1..Len(doc) :
           /\ EmptyPage(q) => \A n \in 1..Len(chunks) : chunks[n].page # q
           /\ (~EmptyPage(q) /\ q <= p) =>
                  \E n \in 1..Len(chunks) :
                      /\ chunks[n].page = q
                      /\ (n > 1 => chunks[n-1].page < q)
                      /\ chunks[n].id = n - 1
                      /\ FirstWord(chunks[n].text) = FirstWord(RawOfPage(q))
    /\ (pc \in {"window", "tag"} /\ EmptyPage(p + 1)) =>
           /\ text = <<>> /\ out = <<>>
           /\ (pc = "tag" => ENABLED TagDone)
    /\ (Indexed /\ \A q \in 1..Len(doc) : EmptyPage(q)) =>
           chunks = <<>> /\ df = <<>> /\ idf = <<>> /\ N = 0
    /\ pc = "failed" =>
           failedAt \in {"PdfReader", "extract_text", "open_chunks",
                         "dump_chunks", "open_index", "dump_index"}

\* an empty first page, then a page with text, processed to the end
C6_Witness ==
    /\ pc = "done"
    /\ Len(doc) = 2
    /\ EmptyPage(1)
    /\ RawOfPage(1) # <<>>
    /\ chunks # <<>>
    /\ chunks[1].page = 2 /\ chunks[1].id = 0

\* ------------------------------------------------------------------------
\* C7: a chunk's text has at most CHUNK_SIZE + 120 characters: the window
\* ends at most 120 after min(i+CHUNK_SIZE, len(text)) and never after
\* len(text).
\* ------------------------------------------------------------------------
C7_ChunkLengthBounded ==
    /\ \A n \in 1..Len(spans) :
           /\ Len(out[n].text) = spans[n].end - spans[n].i
           /\ Len(out[n].text) <= CHUNK_SIZE + 120
           /\ spans[n].end <= Len(text)
           /\ spans[n].end >= Min(spans[n].i + CHUNK_SIZE, Len(text))
           /\ spans[n].end <= Min(spans[n].i + CHUNK_SIZE, Len(text)) + 120
    /\ \A n \in 1..Len(chunks) : Len(chunks[n].text) <= CHUNK_SIZE + 120

\* a chunk of the full CHUNK_SIZE + 120 characters
C7_Witness ==
    \E n \in 1..Len(chunks) : Len(chunks[n].text) = CHUNK_SIZE + 120

\* ------------------------------------------------------------------------
\* C8: every window after the first starts OVERLAP before the final end of
\* the window before it, so the two share exactly OVERLAP characters; no
\* window follows one whose end has reached len(text); a text of 1000
\* characters gives two chunks, the second starting at 750 plus the
\* extension of the first.
\* ------------------------------------------------------------------------
C8_NextWindowStartsOverlapBack ==
    /\ \A n \in 2..Len(spans) :
           /\ spans[n].i = spans[n-1].end - OVERLAP
           /\ spans[n].i >= spans[n-1].i
           /\ spans[n].end > spans[n-1].end
           /\ spans[n-1].end < Len(text)
           /\ SubSeq(out[n].text, 1, OVERLAP)
                  = SubSeq(out[n-1].text, Len(out[n-1].text) - OVERLAP + 1,
                           Len(out[n-1].text))
    /\ (pc = "window" /\ spans # <<>>) =>
           /\ spans[Len(spans)].end < Len(text)
           /\ i = spans[Len(spans)].end - OVERLAP
    /\ (Returned /\ spans # <<>>) => spans[Len(spans)].end >= Len(text)
    /\ (Returned /\ Len(text) = 1000) =>
           /\ Len(out) = 2
           /\ spans[2].i = 750 + (spans[1].end - CHUNK_SIZE)

C8_Witness ==
    /\ Returned
    /\ Len(text) = 1000
    /\ Len(out) = 2
    /\ spans[2].i = 750

\* ------------------------------------------------------------------------
\* C9 (as claimed): a failure after the chunks are computed and before the
\* index write leaves the chunk store updated with this run's chunks and
\* the index store as it was; the index store is updated only in a run that
\* has updated the chunk store; a failure while the source document is
\* read leaves both files as they were.
\* ------------------------------------------------------------------------
C9_FailureBeforeIndexWrite ==
    [][/\ (pc' = "failed" /\ failedAt' \in {"open_chunks", "dump_chunks",
                                             "open_index"}) =>
              /\ chunkStore' = Dumped(chunks)
              /\ indexStore' = indexStore
       /\ indexStore' # indexStore => chunkStore = Dumped(chunks)
       /\ pc \in {"start", "pages", "window", "tag", "index"} =>
              /\ chunkStore' = chunkStore
              /\ indexStore' = indexStore]_vars

\* C9 (amended): a failure after the chunk store is written and before the
\* index store is opened for writing leaves the chunk store updated with
\* this run's chunks and the index store as it was; the rest as claimed.
C9_FailureBetweenTheWrites ==
    [][/\ (pc' = "failed" /\ failedAt' = "open_index") =>
              /\ chunkStore' = Dumped(chunks)
              /\ indexStore' = indexStore
       /\ indexStore' # indexStore => chunkStore = Dumped(chunks)
       /\ pc \in {"start", "pages", "window", "tag", "index"} =>
              /\ chunkStore' = chunkStore
              /\ indexStore' = indexStore]_vars

\* the second run failed between the writes: new chunks, the index of the
\* first run
C9_Witness ==
    /\ run = 2
    /\ pc = "failed" /\ failedAt = "open_index"
    /\ chunks # <<>>
    /\ chunkStore = Dumped(chunks)
    /\ indexStore.state = "written"

\* ------------------------------------------------------------------------
\* C10: the while loop of chunk() ends: every window but the last has at
\* least CHUNK_SIZE characters, so each start is at least
\* CHUNK_SIZE - OVERLAP after the one before, and there are at most
\* ceil(len(text) / (CHUNK_SIZE - OVERLAP)) windows.
\* ------------------------------------------------------------------------
C10_LoopAdvances ==
    /\ CHUNK_SIZE - OVERLAP > 0
    /\ \A n \in 1..Len(spans) :
           (n < Len(spans) \/ pc = "window") =>
               spans[n].end - spans[n].i >= CHUNK_SIZE
    /\ \A n \in 2..Len(spans) :
           spans[n].i - spans[n-1].i >= CHUNK_SIZE - OVERLAP
    /\ (pc = "window" /\ spans # <<>>) =>
           /\ i - spans[Len(spans)].i >= CHUNK_SIZE - OVERLAP
           /\ i < Len(text)
    /\ Len(spans) * (CHUNK_SIZE - OVERLAP)
           < Len(text) + (CHUNK_SIZE - OVERLAP)
    /\ pc = "window" => ENABLED Window

\* C10, with the termination itself: under FairSpec the loop is left
C10_LoopTerminates ==
    /\ []C10_LoopAdvances
    /\ (pc = "window") ~> (pc = "tag")

C10_Witness ==
    /\ Returned
    /\ Len(spans) = 3
    /\ spans[2].i - spans[1].i > CHUNK_SIZE - OVERLAP
    /\ Len(spans) * (CHUNK_SIZE - OVERLAP) >= Len(text)

=============================================================================
